---- MODULE Spec2Model ----
(***************************************************************************)
(* FunSearch core: the Population Store (core/program_db.py), the          *)
(* Candidate Evaluator (core/evaluator.py) and the Search Orchestrator     *)
(* (funsearch.py).                                                         *)
(*                                                                         *)
(* Fitness values are integers: only their order and the average of the    *)
(* trial scores matter to the store and the orchestrator.  An optional     *)
(* Python value (None or an object) is a sequence of length 0 or 1.        *)
(***************************************************************************)
EXTENDS Integers, Sequences, FiniteSets, TLC

----------------------------------------------------------------------------
(* Bounds of the model *)

\* largest max_size a ProgramDatabase is constructed with (0 is included)
MaxCapacity == 3
\* largest fitness handed to add_program directly
MaxFitness == 1
\* number of Program objects constructed in one behaviour
MaxCalls == 5
\* a trial score is 2*k for k in 0..MaxScore
MaxScore == 0
\* largest num_trials of a direct Evaluator.evaluate call
MaxTrials == 2
\* largest num_iterations of a run() call
MaxIterations == 2
\* largest log_interval of a run() call
MaxLogInterval == 2
\* largest value the generation counter is followed to
MaxGeneration == 2
\* largest max_programs a FunSearch is constructed with (0 is included)
MaxPrograms == 2
\* number of candidates sampled or seeded in one behaviour of the orchestrator
MaxSamples == 2
\* the large store: its capacity, the add_program calls made on it, and the
\* significand width of the floating-point format that stands for binary64
MaxPoolSize == 10
MaxPoolCalls == 11
MantissaBits == 2
\* concurrent callers of add_program and the calls they make
MaxThreads == 2
MaxConcCalls == 2
\* the environment: width, mice plus predators, max_steps
MaxWidth == 2
MaxAgents == 3
MaxSimSteps == 2
MaxPredatorSpeed == 4
MaxChaseWidth == 4

----------------------------------------------------------------------------
(* Program constants *)

\* evaluator.py: the fitness of a failed evaluation (-1.0)
FailFitness == -1
\* funsearch.py: stats['best_fitness'] starts at -float('inf')
NegInf == -1000
\* evaluator.py: default num_trials of Evaluator.evaluate
DefaultNumTrials == 10

None == << >>
Some(x) == << x >>

VARIABLES
    max_size,       \* ProgramDatabase.max_size
    programs,       \* ProgramDatabase.programs: the heap list, programs[1] is Python's programs[0]
    best_program,   \* ProgramDatabase._best_program (None or Some(program))
    generation,     \* ProgramDatabase._generation
    stats,          \* FunSearch.stats
    verbose,        \* FunSearch.verbose
    runState,       \* the position of a run() call in its loop
    nextId,         \* identity of the next Program object constructed
    call,           \* the last operation called, its inputs and what it returned
    threads,        \* the position of each thread inside an add_program call
    sim             \* the locals of a run_simulation call and its environment

vars == << max_size, programs, best_program, generation, stats, verbose,
           runState, nextId, call, threads, sim >>

dbVars == << max_size, programs, best_program, generation >>

----------------------------------------------------------------------------
(* Program and the heap (heapq on a list of Program, ordered by __lt__) *)

\* dataclass Program; id is the object's identity, error is whether
\* metadata has an 'error' entry
Program(id, fitness, error, gen, parent_id) ==
    [id |-> id, fitness |-> fitness, error |-> error,
     generation |-> gen, parent_id |-> parent_id]

\* Program.__lt__
Lt(a, b) == a.fitness < b.fitness

\* heap[pos] for a 0-based Python position
At(heap, pos) == heap[pos + 1]

\* heap[pos] = item for a 0-based Python position
Put(heap, pos, item) == [heap EXCEPT ![pos + 1] = item]

\* heapq._siftdown(heap, startpos, pos), the while loop with newitem held aside
RECURSIVE SiftDownLoop(_, _, _, _)
SiftDownLoop(heap, startpos, pos, newitem) ==
    IF pos > startpos
    THEN LET parentpos == (pos - 1) \div 2
             parent == At(heap, parentpos)
         IN  IF Lt(newitem, parent)
             THEN SiftDownLoop(Put(heap, pos, parent), startpos, parentpos, newitem)
             ELSE Put(heap, pos, newitem)
    ELSE Put(heap, pos, newitem)

SiftDown(heap, startpos, pos) ==
    SiftDownLoop(heap, startpos, pos, At(heap, pos))

\* heapq._siftup(heap, pos): bubble the smaller child up to a leaf, then
\* sift the new item down from there
RECURSIVE SiftUpLoop(_, _, _, _)
SiftUpLoop(heap, startpos, pos, newitem) ==
    LET endpos == Len(heap)
        childpos == 2 * pos + 1
        rightpos == childpos + 1
        chosen == IF rightpos < endpos /\ ~Lt(At(heap, childpos), At(heap, rightpos))
                  THEN rightpos ELSE childpos
    IN  IF childpos < endpos
        THEN SiftUpLoop(Put(heap, pos, At(heap, chosen)), startpos, chosen, newitem)
        ELSE SiftDown(Put(heap, pos, newitem), startpos, pos)

SiftUp(heap, pos) == SiftUpLoop(heap, pos, pos, At(heap, pos))

\* heappush without the sift: the item stays at the end of the list
HeapPushNoSift(heap, item) == Append(heap, item)

\* heapq.heappush(heap, item)
HeapPush(heap, item) ==
    SiftDown(Append(heap, item), 0, Len(heap))

\* the item dropped is the last of the list, not heap[0]
HeapReplaceLast(heap, item) ==
    SiftDown(Put(heap, Len(heap) - 1, item), 0, Len(heap) - 1)

\* heapq.heapreplace(heap, item): the heap after the call (the item returned
\* and dropped is heap[0])
HeapReplace(heap, item) ==
    SiftUp(Put(heap, 0, item), 0)

----------------------------------------------------------------------------
(* ProgramDatabase *)

\* the best program set once and never compared again
UpdateBestOnlyFirst(best, program) ==
    IF best = None THEN Some(program) ELSE best

\* the best program replaced on a tie (>= for >)
UpdateBestOnTie(best, program) ==
    IF best = None \/ program.fitness >= best[1].fitness
    THEN Some(program)
    ELSE best

\* add_program, lines 81-83: always keep the best program
UpdateBest(best, program) ==
    IF best = None \/ program.fitness > best[1].fitness
    THEN Some(program)
    ELSE best

\* room for one more at capacity (<= for <)
HasRoomInclusive(progs, cap) == Len(progs) <= cap

\* the last free slot is never filled
HasRoomOffByOne(progs, cap) == Len(progs) + 1 < cap

\* add_program, line 86: the heap still has room
HasRoom(progs, cap) == Len(progs) < cap

\* a tie with programs[0] replaces it (>= for >)
BeatsWorstOnTie(progs, fitness) == fitness >= At(progs, 0).fitness

\* add_program, line 89: the new program beats programs[0]
BeatsWorst(progs, fitness) == fitness > At(progs, 0).fitness

\* add_program as a function of the database state: the new heap, the new
\* best program, the value returned, the program dropped by heapreplace and
\* the exception raised (programs[0] of an empty list is an IndexError)
AddProgramResult(progs, best, cap, program) ==
    LET newBest == UpdateBest(best, program)
    IN  IF HasRoom(progs, cap)
        THEN [programs |-> HeapPush(progs, program), best |-> newBest,
              accepted |-> TRUE, evicted |-> None, raised |-> "none"]
        ELSE IF Len(progs) = 0
        THEN [programs |-> progs, best |-> newBest,
              accepted |-> FALSE, evicted |-> None, raised |-> "IndexError"]
        ELSE IF BeatsWorst(progs, program.fitness)
        THEN [programs |-> HeapReplace(progs, program), best |-> newBest,
              accepted |-> TRUE, evicted |-> Some(At(progs, 0)), raised |-> "none"]
        ELSE [programs |-> progs, best |-> newBest,
              accepted |-> FALSE, evicted |-> None, raised |-> "none"]

\* get_best(n), line 106: sorted(..., key=fitness, reverse=True) is stable, so
\* programs of equal fitness keep their order in the heap list
RECURSIVE InsertSorted(_, _)
InsertSorted(sorted, p) ==
    IF sorted = << >> THEN << p >>
    ELSE IF Head(sorted).fitness >= p.fitness
         THEN << Head(sorted) >> \o InsertSorted(Tail(sorted), p)
         ELSE << p >> \o sorted

RECURSIVE SortedPrograms(_)
SortedPrograms(progs) ==
    IF progs = << >> THEN << >>
    ELSE InsertSorted(SortedPrograms(SubSeq(progs, 1, Len(progs) - 1)),
                      progs[Len(progs)])

Min2(a, b) == IF a < b THEN a ELSE b
Max2(a, b) == IF a > b THEN a ELSE b

\* get_best(n), line 107: sorted_programs[:n] for n >= 0
GetBest(progs, n) == SubSeq(SortedPrograms(progs), 1, Min2(n, Len(progs)))

\* sample_program choosing among all the programs
SampleProgramAny(progs) ==
    IF progs = << >> THEN { None }
    ELSE { Some(progs[i]) : i \in DOMAIN progs }

\* sample_program always returning the first of the sorted programs
SampleProgramBestOnly(progs) ==
    IF progs = << >> THEN { None }
    ELSE { Some(GetBest(progs, 1)[1]) }

\* sample_program: the values random.choice can return (None for an empty
\* database)
SampleProgram(progs) ==
    IF progs = << >> THEN { None }
    ELSE LET top_programs == GetBest(progs, Max2(1, Len(progs) \div 5))
         IN  { Some(top_programs[i]) : i \in 1..Len(top_programs) }

----------------------------------------------------------------------------
(* Evaluator *)

\* What a candidate source does when it is compiled, loaded and called:
\*   syntax  compile() accepts it
\*   load    exec of the source: "ok" defines mice_behavior, "missing" does
\*           not, "exception" raises an Exception, "exit" raises SystemExit
\*   step    a call of mice_behavior: "ok" returns a direction, "exception"
\*           raises an Exception, "exit" raises SystemExit
Candidates ==
    { c \in [syntax : BOOLEAN,
             load : {"ok", "missing", "exception", "exit"},
             step : {"ok", "exception", "exit"}] :
        /\ (~c.syntax => c.load = "exception")
        /\ (c.load # "ok" => c.step = "ok") }

\* the scores the trials of one evaluation can return
Scores == { 2 * k : k \in 0..MaxScore }

\* the scores of n trials: a in the first half of the trials, b in the rest
TrialScores(n, a, b) == [i \in 1..n |-> IF 2 * i <= n THEN a ELSE b]

\* the score sequences n trials of candidate c can produce: no trial is run
\* to its end unless the candidate loads and its calls return
ScoreChoices(c, n) ==
    IF c.load = "ok" /\ c.step # "exit"
    THEN { TrialScores(n, a, b) : a, b \in Scores }
    ELSE { TrialScores(n, 0, 0) }

RECURSIVE Sum(_)
Sum(s) == IF s = << >> THEN 0 ELSE Head(s) + Sum(Tail(s))

\* every source passes the syntax check
IsValidAlways(c) == TRUE

\* is_valid: compile() in a try with a bare except
IsValid(c) == c.syntax

\* run_simulation as the evaluator sees it: the per-step try/except Exception
\* swallows "exception", SystemExit is not an Exception and leaves the call
RunSimulation(c, score) ==
    IF c.step = "exit"
    THEN [raised |-> "SystemExit", score |-> 0]
    ELSE [raised |-> "none", score |-> score]

\* evaluate, lines 61-62: is this raised object caught by `except Exception`
CaughtByEvaluate(raised) == raised \in {"Exception", "ZeroDivisionError"}

\* what the try block of evaluate does: the value returned or the object
\* raised, and the number of run_simulation calls made
EvaluateBody(c, num_trials, scores) ==
    IF c.load = "exit"
    THEN [raised |-> "SystemExit", fitness |-> 0, error |-> FALSE, trials |-> 0]
    ELSE IF c.load = "exception"
    THEN [raised |-> "Exception", fitness |-> 0, error |-> FALSE, trials |-> 0]
    ELSE IF c.load = "missing"
    THEN [raised |-> "none", fitness |-> FailFitness, error |-> TRUE, trials |-> 0]
    ELSE IF num_trials > 0 /\ RunSimulation(c, scores[1]).raised # "none"
    THEN [raised |-> RunSimulation(c, scores[1]).raised, fitness |-> 0,
          error |-> FALSE, trials |-> 1]
    ELSE IF Len(scores) = 0
    THEN [raised |-> "ZeroDivisionError", fitness |-> 0, error |-> FALSE,
          trials |-> 0]
    ELSE [raised |-> "none", fitness |-> Sum(scores) \div Len(scores),
          error |-> FALSE, trials |-> num_trials]

\* evaluate(program_code, num_trials)
Evaluate(c, num_trials, scores) ==
    LET body == EvaluateBody(c, num_trials, scores)
    IN  IF CaughtByEvaluate(body.raised)
        THEN [raised |-> "none", fitness |-> FailFitness, error |-> TRUE,
              trials |-> body.trials]
        ELSE body

----------------------------------------------------------------------------
(* The record of the last call *)

NoCall ==
    [op |-> "none", candidate |-> None, parent |-> None, fitness |-> 0,
     error |-> FALSE, accepted |-> FALSE, evicted |-> None, raised |-> "none",
     success |-> FALSE, reason |-> "none", evaluated |-> 0, trials |-> 0,
     offered |-> 0, num_trials |-> 0, n |-> 0, result |-> << >>,
     statistics |-> << >>, spin |-> 0]

\* no run() call is active; start_generation and start_samples are the
\* generation counter and total_samples a run() call found when it was entered
Idle == [pc |-> "idle", iteration |-> 0, num_iterations |-> 0, log_interval |-> 1,
         start_generation |-> 0, start_samples |-> 0]

\* the threads that call add_program; a thread outside add_program
Threads == 1..MaxThreads
IdleThread == [pc |-> "idle", program |-> None]

\* no run_simulation call has been made.  placement is where
\* _initialize_agents put the agents, history the agents and totals at the
\* end of each step of this call, earlier the previous call on the same
\* environment (its placement, history and outcome)
NoSim ==
    [pc |-> "none", num_mice |-> 0, num_predators |-> 0, predator_speed |-> 0,
     behaviour |-> None, mice |-> << >>, predators |-> << >>, step |-> 0,
     total_survival_steps |-> 0, total_distance_score |-> 0,
     called |-> << >>, failed |-> << >>, raised |-> "none",
     fitness_num |-> 0, fitness_den |-> 1, capture_distance |-> 0,
     width |-> 0,
     placement |-> << >>, history |-> << >>, earlier |-> << >>]

\* ProgramDatabase.__init__ and FunSearch.__init__
Init ==
    /\ max_size \in 0..MaxCapacity
    /\ programs = << >>
    /\ best_program = None
    /\ generation = 0
    /\ stats = [total_samples |-> 0, valid_samples |-> 0,
                accepted_samples |-> 0, best_fitness |-> NegInf]
    /\ verbose \in BOOLEAN
    /\ runState = Idle
    /\ nextId = 1
    /\ call = NoCall
    /\ threads = [t \in Threads |-> IdleThread]
    /\ sim = NoSim

----------------------------------------------------------------------------
(* Operations of the ProgramDatabase, called directly *)

\* the fitness values handed to add_program
Fitnesses == FailFitness..MaxFitness

\* add_program(code, fitness) with the default metadata and parent_id
AddProgramBody(fitness) ==
    /\ LET program == Program(nextId, fitness, FALSE, generation, None)
           r == AddProgramResult(programs, best_program, max_size, program)
       IN  /\ programs' = r.programs
           /\ best_program' = r.best
           /\ call' = [NoCall EXCEPT !.op = "add_program", !.fitness = fitness,
                                     !.accepted = r.accepted,
                                     !.evicted = r.evicted,
                                     !.raised = r.raised, !.offered = 1]
    /\ nextId' = nextId + 1
    /\ UNCHANGED << max_size, generation, stats, verbose, threads, sim, runState >>

\* add_program, at most MaxCalls calls in a behaviour
AddProgram(fitness) == nextId <= MaxCalls /\ AddProgramBody(fitness)

\* increment_generation()
IncrementGeneration ==
    /\ generation < MaxGeneration
    /\ generation' = generation + 1
    /\ call' = [NoCall EXCEPT !.op = "increment_generation"]
    /\ UNCHANGED << max_size, programs, best_program, stats, verbose, threads, sim,
                    runState, nextId >>

\* a ProgramDatabase on its own (verbose is the FunSearch default)
InitDB == Init /\ verbose

NextDB ==
    \/ \E fitness \in Fitnesses : AddProgram(fitness)
    \/ IncrementGeneration

SpecDB == InitDB /\ [][NextDB]_vars

----------------------------------------------------------------------------
(* FunSearch, the orchestrator *)

\* parent_id = id(parent_program) if parent_program else None
ParentId(parent) == IF parent = None THEN None ELSE Some(parent[1].id)

\* an accepted sample is not counted
StatsAfterAddUncounted(st, accepted, fitness) ==
    [st EXCEPT !.best_fitness = IF fitness > @ THEN fitness ELSE @]

\* run_iteration, lines 108-113: what the stats become once add_program has
\* returned accepted for a candidate of this fitness
StatsAfterAdd(st, accepted, fitness) ==
    [st EXCEPT !.accepted_samples = IF accepted THEN @ + 1 ELSE @,
               !.best_fitness = IF fitness > @ THEN fitness ELSE @]

\* run_iteration() for the candidate the sampler returns, the parent
\* sample_program picks and the trial scores the environment produces
IterationBody(c, parent, scores) ==
    LET sampled == [stats EXCEPT !.total_samples = @ + 1]
        validated == [sampled EXCEPT !.valid_samples = @ + 1]
        ev == Evaluate(c, DefaultNumTrials, scores)
        program == Program(nextId, ev.fitness, ev.error, generation, ParentId(parent))
        r == AddProgramResult(programs, best_program, max_size, program)
        base == [NoCall EXCEPT !.op = "run_iteration", !.candidate = Some(c),
                               !.parent = parent]
    IN  IF ~IsValid(c)
        THEN \* lines 96-101: invalid syntax
             /\ stats' = sampled
             /\ call' = [base EXCEPT !.reason = "invalid_syntax",
                                     !.fitness = FailFitness]
             /\ UNCHANGED << programs, best_program, nextId >>
        ELSE IF ev.raised # "none"
        THEN \* line 106: evaluate raised, run_iteration is left
             /\ stats' = validated
             /\ call' = [base EXCEPT !.raised = ev.raised, !.evaluated = 1,
                                     !.trials = ev.trials]
             /\ UNCHANGED << programs, best_program, nextId >>
        ELSE IF r.raised # "none"
        THEN \* line 110: add_program raised after it updated _best_program
             /\ stats' = validated
             /\ best_program' = r.best
             /\ nextId' = nextId + 1
             /\ call' = [base EXCEPT !.raised = r.raised, !.evaluated = 1,
                                     !.trials = ev.trials, !.offered = 1,
                                     !.fitness = ev.fitness, !.error = ev.error]
             /\ UNCHANGED programs
        ELSE \* lines 110-125
             /\ stats' = StatsAfterAdd(validated, r.accepted, ev.fitness)
             /\ programs' = r.programs
             /\ best_program' = r.best
             /\ nextId' = nextId + 1
             /\ call' = [base EXCEPT !.success = TRUE, !.accepted = r.accepted,
                                     !.evicted = r.evicted,
                                     !.fitness = ev.fitness, !.error = ev.error,
                                     !.evaluated = 1, !.trials = ev.trials,
                                     !.offered = 1]

\* the inputs of one iteration
Iteration ==
    /\ nextId <= MaxSamples
    /\ stats.total_samples < MaxSamples
    /\ \E c \in Candidates, parent \in SampleProgram(programs) :
          \E scores \in ScoreChoices(c, DefaultNumTrials) :
              IterationBody(c, parent, scores)

\* run_iteration() called directly
RunIteration ==
    /\ runState.pc = "idle"
    /\ Iteration
    /\ UNCHANGED << max_size, generation, verbose, threads, sim, runState >>

\* the seed only raises best_fitness (max for assignment)
SeedStatsMax(st, fitness) ==
    [st EXCEPT !.best_fitness = IF fitness > @ THEN fitness ELSE @]

\* initialize_with_seed, line 66: self.stats['best_fitness'] = fitness
SeedStats(st, fitness) == [st EXCEPT !.best_fitness = fitness]

\* initialize_with_seed(seed_program)
InitializeWithSeed ==
    /\ runState.pc = "idle"
    /\ nextId <= MaxSamples
    /\ \E c \in Candidates : \E scores \in ScoreChoices(c, DefaultNumTrials) :
          LET ev == Evaluate(c, DefaultNumTrials, scores)
              program == Program(nextId, ev.fitness, ev.error, generation, None)
              r == AddProgramResult(programs, best_program, max_size, program)
              base == [NoCall EXCEPT !.op = "initialize_with_seed",
                                     !.candidate = Some(c), !.evaluated = 1,
                                     !.trials = ev.trials]
          IN  IF ev.raised # "none"
              THEN /\ call' = [base EXCEPT !.raised = ev.raised]
                   /\ UNCHANGED << programs, best_program, stats, nextId >>
              ELSE IF r.raised # "none"
              THEN /\ best_program' = r.best
                   /\ nextId' = nextId + 1
                   /\ call' = [base EXCEPT !.raised = r.raised, !.offered = 1,
                                           !.fitness = ev.fitness,
                                           !.error = ev.error]
                   /\ UNCHANGED << programs, stats >>
              ELSE /\ programs' = r.programs
                   /\ best_program' = r.best
                   /\ stats' = SeedStats(stats, ev.fitness)
                   /\ nextId' = nextId + 1
                   /\ call' = [base EXCEPT !.success = TRUE,
                                           !.accepted = r.accepted,
                                           !.evicted = r.evicted,
                                           !.fitness = ev.fitness,
                                           !.error = ev.error, !.offered = 1]
    /\ UNCHANGED << max_size, generation, verbose, threads, sim, runState >>

\* run(num_iterations, log_interval) is entered
RunBegin ==
    /\ runState.pc = "idle"
    /\ \E n \in 0..MaxIterations, li \in 1..MaxLogInterval :
          runState' = [pc |-> "loop", iteration |-> 0, num_iterations |-> n,
                       log_interval |-> li, start_generation |-> generation,
                       start_samples |-> stats.total_samples]
    /\ call' = [NoCall EXCEPT !.op = "run_begin"]
    /\ UNCHANGED << dbVars, stats, verbose, threads, sim, nextId >>

\* run, line 138: result = self.run_iteration()
RunIterate ==
    /\ runState.pc = "loop"
    /\ runState.iteration < runState.num_iterations
    /\ Iteration
    /\ runState' = IF call'.raised # "none" THEN Idle
                   ELSE [runState EXCEPT !.pc = "log"]
    /\ UNCHANGED << max_size, generation, verbose, threads, sim >>

\* run, line 140: is the progress report due
LogDue == verbose /\ (runState.iteration + 1) % runState.log_interval = 0

\* run, lines 140-152: the progress report formats avg_fitness with :.2f,
\* a TypeError when get_statistics returned None for it; then the
\* generation counter is incremented
RunLogAndIncrement ==
    /\ runState.pc = "log"
    /\ generation < MaxGeneration
    /\ IF LogDue /\ programs = << >>
       THEN /\ runState' = Idle
            /\ call' = [NoCall EXCEPT !.op = "run", !.raised = "TypeError"]
            /\ UNCHANGED generation
       ELSE /\ generation' = generation + 1
            /\ runState' = [runState EXCEPT !.pc = "loop", !.iteration = @ + 1]
            /\ call' = [NoCall EXCEPT !.op = "increment_generation"]
    /\ UNCHANGED << max_size, programs, best_program, stats, verbose, threads, sim, nextId >>

\* run returns after the last iteration
RunEnd ==
    /\ runState.pc = "loop"
    /\ runState.iteration = runState.num_iterations
    /\ runState' = Idle
    /\ call' = [NoCall EXCEPT !.op = "run", !.success = TRUE]
    /\ UNCHANGED << dbVars, stats, verbose, threads, sim, nextId >>

\* Evaluator.evaluate(program_code, num_trials) called directly
EvaluateCall ==
    /\ runState.pc = "idle"
    /\ \E c \in Candidates, n \in 0..MaxTrials : \E scores \in ScoreChoices(c, n) :
          LET ev == Evaluate(c, n, scores)
          IN  call' = [NoCall EXCEPT !.op = "evaluate", !.candidate = Some(c),
                                     !.num_trials = n,
                                     !.raised = ev.raised,
                                     !.success = (ev.raised = "none"),
                                     !.fitness = ev.fitness, !.error = ev.error,
                                     !.evaluated = 1, !.trials = ev.trials]
    /\ UNCHANGED << dbVars, stats, verbose, threads, sim, runState, nextId >>

\* FunSearch.__init__(max_programs, verbose)
InitFS == Init /\ max_size <= MaxPrograms

Next ==
    \/ InitializeWithSeed
    \/ RunIteration
    \/ RunBegin
    \/ RunIterate
    \/ RunLogAndIncrement
    \/ RunEnd

Spec == InitFS /\ [][Next]_vars

NextEval == EvaluateCall

SpecEval == Init /\ [][NextEval]_vars

----------------------------------------------------------------------------
(* Properties of the ProgramDatabase, checked under SpecDB *)

\* the programs in the heap list; Program ids are unique, so this set is the
\* multiset of members
Members(progs) == { progs[i] : i \in DOMAIN progs }

\* the least fitness in a non-empty heap list
MinFitness(progs) ==
    CHOOSE m \in { p.fitness : p \in Members(progs) } :
        \A p \in Members(progs) : m <= p.fitness

\* the step is an add_program call
IsAdd == call'.op = "add_program"

\* the Program object the add_program call of this step constructed
NewProgram == Program(nextId, call'.fitness, FALSE, generation, None)

\* C1: with capacity >= 1, after any sequence of add_program calls (rejected
\* ones included) the best-ever program exists as soon as there is a member
\* and its fitness is >= the fitness of every member.
C1_BestEverDominatesMembers ==
    (max_size >= 1 /\ programs # << >>) =>
        /\ best_program # None
        /\ \A p \in Members(programs) : best_program[1].fitness >= p.fitness

\* C1 witness: a full store of at least two members has just rejected an add.
C1_Witness ==
    /\ call.op = "add_program" /\ ~call.accepted /\ call.raised = "none"
    /\ Len(programs) >= 2 /\ Len(programs) = max_size

\* C2: with capacity >= 1 the number of members never exceeds capacity; an
\* add on a store at capacity leaves the size at capacity; after an evicting
\* add every member's fitness is >= the fitness of the evicted member.
C2_BoundedAndEvictsLowest ==
    [][ max_size >= 1 =>
          /\ Len(programs) <= max_size
          /\ Len(programs') <= max_size
          /\ (IsAdd /\ Len(programs) = max_size => Len(programs') = max_size)
          /\ (IsAdd /\ call'.evicted # None =>
                \A p \in Members(programs') :
                    p.fitness >= call'.evicted[1].fitness) ]_vars

\* C2 witness: an add has evicted a member of a store of capacity >= 2.
C2_Witness ==
    /\ call.op = "add_program" /\ call.evicted # None
    /\ max_size >= 2 /\ Len(programs) = max_size

\* C3: at capacity, add_program accepts iff the new fitness is strictly
\* greater than the minimum member fitness; on acceptance exactly one member
\* is removed, it had the minimum fitness, and the members are the old ones
\* minus it plus the new candidate; programs[0] is always a minimum.
C3_AcceptIffBeatsMinimum ==
    [][ (IsAdd /\ max_size >= 1 /\ Len(programs) = max_size) =>
          /\ call'.accepted <=> call'.fitness > MinFitness(programs)
          /\ call'.accepted =>
                \E old \in Members(programs) :
                    /\ old.fitness = MinFitness(programs)
                    /\ call'.evicted = Some(old)
                    /\ Members(programs') =
                          (Members(programs) \ {old}) \cup {NewProgram}
                    /\ Len(programs') = Len(programs)
          /\ programs'[1].fitness = MinFitness(programs') ]_vars

\* C3 witness: an accepted add on a store of capacity 3 evicted a program
\* that was itself inserted by an earlier evicting add.
C3_Witness ==
    /\ call.op = "add_program" /\ call.accepted /\ call.evicted # None
    /\ max_size = 3 /\ call.evicted[1].id > 3

\* C4: below capacity, add_program inserts the candidate whatever its
\* fitness, returns accepted, grows members by exactly 1 and removes nothing.
C4_InsertBelowCapacity ==
    [][ (IsAdd /\ Len(programs) < max_size) =>
          /\ call'.accepted /\ call'.raised = "none"
          /\ call'.evicted = None
          /\ Len(programs') = Len(programs) + 1
          /\ Members(programs') = Members(programs) \cup {NewProgram} ]_vars

\* C4 witness: a candidate with the failure fitness, lower than every other
\* member, was inserted into a store with room.
C4_Witness ==
    /\ call.op = "add_program" /\ call.accepted /\ call.evicted = None
    /\ call.fitness = FailFitness /\ Len(programs) >= 2
    /\ \A p \in Members(programs) : p.id # nextId - 1 => p.fitness > FailFitness

\* C5: the best-ever fitness never decreases, and the best-ever program is
\* replaced only by a program of strictly higher fitness: an add of equal or
\* lower fitness leaves it unchanged.
C5_BestEverMonotone ==
    [][ best_program # None =>
          /\ best_program' # None
          /\ best_program'[1].fitness >= best_program[1].fitness
          /\ (best_program' # best_program =>
                best_program'[1].fitness > best_program[1].fitness)
          /\ (IsAdd /\ call'.fitness <= best_program[1].fitness =>
                best_program' = best_program) ]_vars

\* C5 witness: an add with exactly the best-ever fitness left the older
\* best-ever program in place.
C5_Witness ==
    /\ call.op = "add_program" /\ best_program # None
    /\ call.fitness = best_program[1].fitness
    /\ best_program[1].id < nextId - 1

\* C6: at capacity, a candidate whose fitness is <= the minimum member
\* fitness is rejected without an exception; members and the generation
\* counter are unchanged.
C6_RejectLeavesStore ==
    [][ (IsAdd /\ programs # << >> /\ Len(programs) = max_size
           /\ call'.fitness <= MinFitness(programs)) =>
          /\ ~call'.accepted /\ call'.raised = "none"
          /\ programs' = programs
          /\ generation' = generation ]_vars

\* C6 witness: a tie with the minimum was rejected, in a later generation.
C6_Witness ==
    /\ call.op = "add_program" /\ ~call.accepted /\ call.raised = "none"
    /\ programs # << >> /\ call.fitness = MinFitness(programs)
    /\ generation >= 1

----------------------------------------------------------------------------
(* Properties of the Evaluator and the orchestrator *)

\* the ways the evaluation of candidate c with n trials can fail
FailsEvaluation(c, n) ==
    ~c.syntax \/ c.load # "ok" \/ c.step = "exit" \/ n = 0

\* C7: evaluate never raises to its caller: for every way compilation,
\* loading or execution fails (any exception or exit raised by the candidate,
\* a missing entry point, num_trials = 0) it returns fitness -1.0 with an
\* error entry in the metadata, and for a missing entry point no trial runs.
\* Checked under SpecEval.
C7_EvaluateNeverRaises ==
    call.op = "evaluate" =>
        /\ call.raised = "none"
        /\ (FailsEvaluation(call.candidate[1], call.num_trials) =>
               call.fitness = FailFitness /\ call.error)
        /\ (call.candidate[1].load = "missing" => call.trials = 0)

\* C8: a run_iteration whose candidate failed evaluation (fitness -1.0) does
\* not accept the candidate into the store, does not increment
\* accepted_samples and does not report accepted.
C8_FailedNeverAccepted ==
    [][ (call'.op = "run_iteration" /\ call'.evaluated = 1
           /\ call'.raised = "none" /\ call'.fitness = FailFitness) =>
          /\ ~call'.accepted
          /\ stats'.accepted_samples = stats.accepted_samples
          /\ \A p \in Members(programs') : p.id # nextId ]_vars

\* the Program constructed in this step is a member afterwards
NewProgramStored == \E p \in Members(programs') : p.id = nextId

\* the step is a run_iteration on a candidate of this syntactic validity
IsIteration(valid) ==
    call'.op = "run_iteration" /\ call'.candidate[1].syntax = valid

\* C9: for a syntactically invalid candidate run_iteration returns
\* {success: False, reason: 'invalid_syntax', fitness: -1.0}, increments
\* total_samples by exactly 1, leaves valid_samples, accepted_samples,
\* best_fitness and the whole store unchanged and does not call evaluate.
C9_InvalidSyntaxOnlyCounted ==
    [][ IsIteration(FALSE) =>
          /\ ~call'.success /\ call'.reason = "invalid_syntax"
          /\ call'.fitness = FailFitness /\ call'.raised = "none"
          /\ stats' = [stats EXCEPT !.total_samples = @ + 1]
          /\ UNCHANGED << programs, best_program, generation >>
          /\ call'.evaluated = 0 /\ call'.offered = 0 ]_vars

\* C9 witness: an invalid candidate was sampled inside a run, in a later
\* generation, with a non-empty store and valid samples counted before.
C9_Witness ==
    /\ call.op = "run_iteration" /\ call.reason = "invalid_syntax"
    /\ programs # << >> /\ generation >= 1 /\ stats.valid_samples >= 1
    /\ runState.pc = "log"

\* C10: for a syntactically valid candidate run_iteration increments
\* total_samples and valid_samples by 1 each, offers the candidate to the
\* store exactly once, increments accepted_samples iff the store accepted,
\* reports the store's accepted flag and the evaluator's fitness, and sets
\* best_fitness to max(previous best_fitness, fitness).  Stated for a store
\* of capacity >= 1.
C10_ValidCandidateOffered ==
    [][ (max_size >= 1 /\ IsIteration(TRUE)) =>
          /\ stats'.total_samples = stats.total_samples + 1
          /\ stats'.valid_samples = stats.valid_samples + 1
          /\ call'.evaluated = 1 /\ call'.offered = 1
          /\ call'.success /\ call'.raised = "none"
          /\ call'.accepted <=> NewProgramStored
          /\ stats'.accepted_samples =
                stats.accepted_samples + (IF call'.accepted THEN 1 ELSE 0)
          /\ stats'.best_fitness = Max2(stats.best_fitness, call'.fitness) ]_vars

----------------------------------------------------------------------------
(* Properties of run() and initialize_with_seed, checked under Spec *)

\* the step leaves a run() call, by return or by an exception
LeavesRun == runState.pc # "idle" /\ runState'.pc = "idle"

\* C11: run(num_iterations) executes run_iteration exactly num_iterations
\* times and increments the generation counter once per iteration, whatever
\* the iterations' outcomes, the store contents and verbose/log_interval:
\* a run() call is only left by returning after num_iterations iterations,
\* with the generation counter and total_samples each grown by exactly
\* num_iterations; the generation counter never decreases.  Stated for a
\* store of capacity >= 1 and candidates that raise no SystemExit.
C11_RunCountsEveryIteration ==
    [][ /\ generation' >= generation
        /\ (LeavesRun /\ max_size >= 1 /\ call'.raised # "SystemExit") =>
             /\ call'.raised = "none"
             /\ runState.iteration = runState.num_iterations
             /\ generation' = runState.start_generation + runState.num_iterations
             /\ stats'.total_samples =
                   runState.start_samples + runState.num_iterations ]_vars

\* the step is an initialize_with_seed call that returned
SeedReturns == call'.op = "initialize_with_seed" /\ call'.raised = "none"

\* C12 as claimed: after seed returns the seed program is a member of the
\* store in every state from which seed can be called (a full store of
\* fitter members included) and best_fitness is the seed's fitness.
C12_SeedAlwaysStored ==
    [][ SeedReturns =>
          /\ NewProgramStored
          /\ stats'.best_fitness = call'.fitness ]_vars

\* C12 amended: seed evaluates the source and offers it to the store through
\* add_program: after seed returns the seed program is a member iff the
\* store had room or the seed's fitness is strictly above the minimum member
\* fitness (a full store rejects it otherwise), the call reports that
\* acceptance, and best_fitness is set to the seed's fitness in both cases.
C12_SeedStoredIfRoomOrFitter ==
    [][ SeedReturns =>
          /\ NewProgramStored <=>
                \/ Len(programs) < max_size
                \/ programs # << >> /\ call'.fitness > MinFitness(programs)
          /\ call'.accepted <=> NewProgramStored
          /\ stats'.best_fitness = call'.fitness ]_vars

\* C12 witness: a seed was stored in a store that already had a member and a
\* higher best_fitness is replaced by the seed's lower fitness.
C12_Witness ==
    /\ call.op = "initialize_with_seed" /\ call.raised = "none"
    /\ call.accepted /\ Len(programs) >= 2
    /\ best_program # None /\ stats.best_fitness < best_program[1].fitness

----------------------------------------------------------------------------
(* Termination of an evaluation: evaluate split into its entry and its exit *)

\* candidates whose code does not terminate: "hang" at load is a module body
\* that loops forever under exec, "hang" at step a mice_behavior that does
HangingCandidates ==
    { [syntax |-> TRUE, load |-> "hang", step |-> "ok"],
      [syntax |-> TRUE, load |-> "ok", step |-> "hang"] }

LiveCandidates == Candidates \cup HangingCandidates

\* evaluate runs exec and mice_behavior in the calling thread with no timer,
\* watchdog or subprocess: it gets to its return or raise only if the
\* candidate's code does; mice_behavior is called only when a trial is run
Terminates(c, num_trials) ==
    /\ c.load # "hang"
    /\ ~(c.load = "ok" /\ c.step = "hang" /\ num_trials > 0)

\* evaluate(program_code, num_trials) is entered
EvaluateBegin ==
    /\ runState.pc = "idle"
    /\ call.op # "evaluate_begin"
    /\ \E c \in LiveCandidates, n \in 0..MaxTrials :
          call' = [NoCall EXCEPT !.op = "evaluate_begin", !.candidate = Some(c),
                                 !.num_trials = n]
    /\ UNCHANGED << dbVars, stats, verbose, threads, sim, runState, nextId >>

\* evaluate returns or raises
EvaluateFinish ==
    /\ call.op = "evaluate_begin"
    /\ Terminates(call.candidate[1], call.num_trials)
    /\ \E scores \in ScoreChoices(call.candidate[1], call.num_trials) :
          LET ev == Evaluate(call.candidate[1], call.num_trials, scores)
          IN  call' = [call EXCEPT !.op = "evaluate",
                                   !.raised = ev.raised,
                                   !.success = (ev.raised = "none"),
                                   !.fitness = ev.fitness, !.error = ev.error,
                                   !.evaluated = 1, !.trials = ev.trials]
    /\ UNCHANGED << dbVars, stats, verbose, threads, sim, runState, nextId >>

\* the candidate's endless loop goes round once more (spin is the parity of
\* the rounds made): control stays inside exec or inside mice_behavior
CandidateLoops ==
    /\ call.op = "evaluate_begin"
    /\ ~Terminates(call.candidate[1], call.num_trials)
    /\ call' = [call EXCEPT !.spin = 1 - @]
    /\ UNCHANGED << dbVars, stats, verbose, threads, sim, runState, nextId >>

NextLive ==
    \/ EvaluateBegin
    \/ EvaluateFinish
    \/ CandidateLoops

\* the interpreter keeps executing the evaluation it has entered, the
\* candidate's loop included
SpecLive ==
    /\ Init
    /\ [][NextLive]_vars
    /\ WF_vars(EvaluateFinish)
    /\ WF_vars(CandidateLoops)

\* C13: every candidate evaluation eventually completes (a candidate that
\* does not terminate at load time or inside a behaviour call is cut off and
\* reported as a failed evaluation): an evaluation that was entered is
\* eventually left.
C13_EvaluationCompletes ==
    (call.op = "evaluate_begin") ~> (call.op = "evaluate")

----------------------------------------------------------------------------
(* A large store: sample_program and get_statistics, called directly *)

\* fitness values are floats: a value x is held as the integer x * FloatScale,
\* and a float is a multiple of a power of two with at most MantissaBits
\* significant bits (binary64 with a narrower significand)
FloatScale == 2 ^ (MantissaBits + 8)

\* float(f) for a small integer f
ToFloat(f) == f * FloatScale

RECURSIVE Pow2Below(_, _, _)
\* the largest e * 2^j (j >= 0) with e * 2^j * den <= x, for e * den <= x
Pow2Below(x, den, e) ==
    IF 2 * e * den <= x THEN Pow2Below(x, den, 2 * e) ELSE e

\* x / den for x >= 0, rounded to the nearest float, ties to the even
\* significand (IEEE 754 roundTiesToEven, the rounding of + and / on floats);
\* quotients below 1 / FloatScale do not arise from the fitness values used
RoundRatioAbs(x, den) ==
    IF x < den THEN 0
    ELSE LET e == Pow2Below(x, den, 1)
             ulp == Max2(1, e \div (2 ^ (MantissaBits - 1)))
             q == x \div (den * ulp)
             r == x % (den * ulp)
             up == 2 * r > den * ulp \/ (2 * r = den * ulp /\ q % 2 = 1)
         IN  (IF up THEN q + 1 ELSE q) * ulp

RoundRatio(x, den) ==
    IF x >= 0 THEN RoundRatioAbs(x, den) ELSE 0 - RoundRatioAbs(0 - x, den)

\* a + b and a / n on floats
FloatAdd(a, b) == RoundRatio(a + b, 1)
FloatDiv(a, n) == RoundRatio(a, n)

RECURSIVE FloatSum(_)
\* sum(fitnesses): left to right, every partial sum rounded
FloatSum(fs) ==
    IF fs = << >> THEN 0
    ELSE FloatAdd(FloatSum(SubSeq(fs, 1, Len(fs) - 1)), fs[Len(fs)])

\* max(fitnesses) and min(fitnesses)
MaxOf(fs) == CHOOSE m \in { fs[i] : i \in DOMAIN fs } :
                 \A i \in DOMAIN fs : fs[i] <= m
MinOf(fs) == CHOOSE m \in { fs[i] : i \in DOMAIN fs } :
                 \A i \in DOMAIN fs : m <= fs[i]

\* get_statistics()
GetStatistics(progs, gen) ==
    IF progs = << >>
    THEN [size |-> 0, generation |-> gen, best_fitness |-> None,
          avg_fitness |-> None, worst_fitness |-> None]
    ELSE LET fitnesses == [i \in DOMAIN progs |-> ToFloat(progs[i].fitness)]
         IN  [size |-> Len(progs), generation |-> gen,
              best_fitness |-> Some(MaxOf(fitnesses)),
              avg_fitness |-> Some(FloatDiv(FloatSum(fitnesses), Len(fitnesses))),
              worst_fitness |-> Some(MinOf(fitnesses))]

\* the fitness values handed to add_program on the large store
PoolFitnesses == { 0, MaxFitness }

\* add_program on the large store, at most MaxPoolCalls calls
AddProgramPool(fitness) == nextId <= MaxPoolCalls /\ AddProgramBody(fitness)

\* sample_program()
SampleProgramCall ==
    /\ \E r \in SampleProgram(programs) :
          call' = [NoCall EXCEPT !.op = "sample_program", !.result = r]
    /\ UNCHANGED << dbVars, stats, verbose, threads, sim, runState, nextId >>

\* get_statistics()
GetStatisticsCall ==
    /\ call' = [NoCall EXCEPT !.op = "get_statistics",
                              !.statistics = Some(GetStatistics(programs, generation))]
    /\ UNCHANGED << dbVars, stats, verbose, threads, sim, runState, nextId >>

\* ProgramDatabase(max_size = MaxPoolSize)
InitPool ==
    /\ max_size = MaxPoolSize
    /\ programs = << >>
    /\ best_program = None
    /\ generation \in 0..MaxGeneration
    /\ stats = [total_samples |-> 0, valid_samples |-> 0,
                accepted_samples |-> 0, best_fitness |-> NegInf]
    /\ verbose = TRUE
    /\ runState = Idle
    /\ nextId = 1
    /\ call = NoCall
    /\ threads = [t \in Threads |-> IdleThread]
    /\ sim = NoSim

NextPool ==
    \/ \E fitness \in PoolFitnesses : AddProgramPool(fitness)
    \/ SampleProgramCall
    \/ GetStatisticsCall

SpecPool == InitPool /\ [][NextPool]_vars

----------------------------------------------------------------------------
(* Properties of sample_program and get_statistics, checked under SpecPool *)

\* the number of members strictly fitter than p
FitterThan(progs, p) ==
    Cardinality({ q \in Members(progs) : q.fitness > p.fitness })

\* the number of members at least as fit as p (p included)
AtLeastAsFit(progs, p) ==
    Cardinality({ q \in Members(progs) : q.fitness >= p.fitness })

\* ceil(size / 5) and max(1, floor(size / 5))
CeilFifth(progs) == (Len(progs) + 4) \div 5
FloorFifth(progs) == Max2(1, Len(progs) \div 5)

\* the members sample_program can return
Pool(progs) == { r[1] : r \in SampleProgram(progs) \ { None } }

\* C14: sample_program returns None iff the store is empty; otherwise it
\* returns a current member that is within the top ceil(size/5) by fitness
\* (fewer than ceil(size/5) members are strictly fitter); the call leaves
\* the members, the best-ever program and the generation unchanged.
C14_SampleFromTopFifth ==
    [][ call'.op = "sample_program" =>
          /\ call'.result = None <=> programs = << >>
          /\ call'.result # None =>
                /\ call'.result[1] \in Members(programs)
                /\ FitterThan(programs, call'.result[1]) < CeilFifth(programs)
          /\ UNCHANGED << programs, best_program, generation >> ]_vars

\* C14 witness: sample_program on a store of at least six members returned a
\* member while a less fit member was in the store.
C14_Witness ==
    /\ call.op = "sample_program" /\ call.result # None
    /\ Len(programs) >= 6
    /\ \E q \in Members(programs) : q.fitness < call.result[1].fitness

\* C15 as claimed: the sampling pool is exactly the top ceil(size/5) members
\* by fitness: it has ceil(size/5) members, each of them has fewer than
\* ceil(size/5) strictly fitter members, and every member that is among the
\* top ceil(size/5) whatever the order of ties is a possible result.
C15_PoolIsTopCeilFifth ==
    programs # << >> =>
        /\ Cardinality(Pool(programs)) = CeilFifth(programs)
        /\ \A p \in Pool(programs) :
              FitterThan(programs, p) < CeilFifth(programs)
        /\ \A p \in Members(programs) :
              AtLeastAsFit(programs, p) <= CeilFifth(programs)
                 => p \in Pool(programs)

\* C15 amended: the sampling pool is exactly the top max(1, floor(size/5))
\* members by fitness: it has that many members, each of them has fewer than
\* that many strictly fitter members, and every member that is among that
\* many fittest whatever the order of ties is a possible result.
C15_PoolIsTopFloorFifth ==
    programs # << >> =>
        /\ Cardinality(Pool(programs)) = FloorFifth(programs)
        /\ \A p \in Pool(programs) :
              FitterThan(programs, p) < FloorFifth(programs)
        /\ \A p \in Members(programs) :
              AtLeastAsFit(programs, p) <= FloorFifth(programs)
                 => p \in Pool(programs)

\* C15 witness: on a store of ten members sample_program returned the
\* second of the two pool members, a member that is not the fittest.
C15_Witness ==
    /\ call.op = "sample_program" /\ call.result # None
    /\ Len(programs) = 10
    /\ Cardinality(Pool(programs)) = 2
    /\ FitterThan(programs, call.result[1]) = 1

\* C17: get_statistics reports size = number of members and the generation
\* counter; for an empty store the three fitness fields are None, otherwise
\* best_fitness is the greatest member fitness, worst_fitness the least, and
\* worst_fitness <= avg_fitness <= best_fitness.
C17_StatisticsConsistent ==
    call.op = "get_statistics" =>
        LET st == call.statistics[1]
        IN  /\ st.size = Len(programs)
            /\ st.generation = generation
            /\ programs = << >> =>
                  /\ st.best_fitness = None
                  /\ st.avg_fitness = None
                  /\ st.worst_fitness = None
            /\ programs # << >> =>
                  /\ st.best_fitness # None /\ st.worst_fitness # None
                  /\ st.avg_fitness # None
                  /\ \A p \in Members(programs) :
                        /\ ToFloat(p.fitness) <= st.best_fitness[1]
                        /\ st.worst_fitness[1] <= ToFloat(p.fitness)
                  /\ st.worst_fitness[1] <= st.avg_fitness[1]
                  /\ st.avg_fitness[1] <= st.best_fitness[1]

----------------------------------------------------------------------------
(* get_best, called directly on a store that adds and evicts *)

\* get_best(n)
GetBestCall(n) ==
    /\ call' = [NoCall EXCEPT !.op = "get_best", !.n = n,
                              !.result = GetBest(programs, n)]
    /\ UNCHANGED << dbVars, stats, verbose, threads, sim, runState, nextId >>

NextBest ==
    \/ \E fitness \in Fitnesses : AddProgram(fitness)
    \/ \E n \in 0..(MaxCapacity + 1) : GetBestCall(n)

SpecBest == InitDB /\ [][NextBest]_vars

\* the result of the get_best call: min(n, size) distinct members in
\* descending fitness order, no omitted member fitter than a returned one
BestAreTopN ==
    LET r == call.result
    IN  /\ Len(r) = Min2(call.n, Len(programs))
        /\ \A i \in DOMAIN r : r[i] \in Members(programs)
        /\ \A i, j \in DOMAIN r : i < j =>
              /\ r[i] # r[j]
              /\ r[i].fitness >= r[j].fitness
        /\ \A p \in Members(programs) :
              (\A i \in DOMAIN r : r[i] # p) =>
                 \A i \in DOMAIN r : p.fitness <= r[i].fitness

\* C16: get_best(n) returns min(n, size) members in descending fitness
\* order, no omitted member is fitter than a returned one, and members of
\* equal fitness appear in the order in which they were inserted (Program
\* ids grow in insertion order), after any adds and evictions.
C16_BestDescendingTiesByInsertion ==
    call.op = "get_best" =>
        /\ BestAreTopN
        /\ \A i, j \in DOMAIN call.result :
              (i < j /\ call.result[i].fitness = call.result[j].fitness)
                 => call.result[i].id < call.result[j].id

----------------------------------------------------------------------------
(* Configuration values, checked under SpecDB *)

\* C18: configuration errors are fatal at construction and only there: a
\* store with a non-positive capacity is never constructed, and no
\* add_program call on a constructed store raises.
C18_BadConfigurationOnlyAtConstruction ==
    /\ max_size >= 1
    /\ call.op = "add_program" => call.raised = "none"

----------------------------------------------------------------------------
(* add_program called by several threads on one store.  The method takes no
   lock, so the threads interleave between its statements; each heapq call is
   taken as one step. *)

\* thread t enters add_program(code, fitness): lines 72-79, the Program
AddEnter(t, fitness) ==
    /\ threads[t].pc = "idle"
    /\ nextId <= MaxConcCalls
    /\ threads' = [threads EXCEPT ![t] =
          [pc |-> "best_check",
           program |-> Some(Program(nextId, fitness, FALSE, generation, None))]]
    /\ nextId' = nextId + 1
    /\ call' = [NoCall EXCEPT !.op = "add_program_enter", !.fitness = fitness]
    /\ UNCHANGED << dbVars, stats, verbose, runState, sim >>

\* line 82: if self._best_program is None or fitness > its fitness
AddBestCheck(t) ==
    /\ threads[t].pc = "best_check"
    /\ threads' = [threads EXCEPT ![t].pc =
          IF \/ best_program = None
             \/ threads[t].program[1].fitness > best_program[1].fitness
          THEN "best_write" ELSE "len_check"]
    /\ UNCHANGED << dbVars, stats, verbose, runState, nextId, call, sim >>

\* line 83: self._best_program = program
AddBestWrite(t) ==
    /\ threads[t].pc = "best_write"
    /\ best_program' = threads[t].program
    /\ threads' = [threads EXCEPT ![t].pc = "len_check"]
    /\ UNCHANGED << max_size, programs, generation, stats, verbose, runState,
                    nextId, call, sim >>

\* line 86: if len(self.programs) < self.max_size
AddLenCheck(t) ==
    /\ threads[t].pc = "len_check"
    /\ threads' = [threads EXCEPT ![t].pc =
          IF HasRoom(programs, max_size) THEN "push" ELSE "min_check"]
    /\ UNCHANGED << dbVars, stats, verbose, runState, nextId, call, sim >>

\* lines 87-88: heapq.heappush(self.programs, program); return True
AddPush(t) ==
    /\ threads[t].pc = "push"
    /\ programs' = HeapPush(programs, threads[t].program[1])
    /\ threads' = [threads EXCEPT ![t] = IdleThread]
    /\ call' = [NoCall EXCEPT !.op = "add_program",
                              !.fitness = threads[t].program[1].fitness,
                              !.accepted = TRUE, !.offered = 1]
    /\ UNCHANGED << max_size, best_program, generation, stats, verbose,
                    runState, nextId, sim >>

\* line 89: elif fitness > self.programs[0].fitness, else return False
AddMinCheck(t) ==
    /\ threads[t].pc = "min_check"
    /\ IF programs = << >>
       THEN /\ threads' = [threads EXCEPT ![t] = IdleThread]
            /\ call' = [NoCall EXCEPT !.op = "add_program",
                                      !.fitness = threads[t].program[1].fitness,
                                      !.raised = "IndexError", !.offered = 1]
       ELSE IF BeatsWorst(programs, threads[t].program[1].fitness)
       THEN /\ threads' = [threads EXCEPT ![t].pc = "replace"]
            /\ UNCHANGED call
       ELSE /\ threads' = [threads EXCEPT ![t] = IdleThread]
            /\ call' = [NoCall EXCEPT !.op = "add_program",
                                      !.fitness = threads[t].program[1].fitness,
                                      !.offered = 1]
    /\ UNCHANGED << dbVars, stats, verbose, runState, nextId, sim >>

\* lines 91-92: heapq.heapreplace(self.programs, program); return True
AddReplace(t) ==
    /\ threads[t].pc = "replace"
    /\ programs' = HeapReplace(programs, threads[t].program[1])
    /\ threads' = [threads EXCEPT ![t] = IdleThread]
    /\ call' = [NoCall EXCEPT !.op = "add_program",
                              !.fitness = threads[t].program[1].fitness,
                              !.accepted = TRUE, !.offered = 1,
                              !.evicted = Some(At(programs, 0))]
    /\ UNCHANGED << max_size, best_program, generation, stats, verbose,
                    runState, nextId, sim >>

NextConc ==
    \E t \in Threads :
        \/ \E fitness \in PoolFitnesses : AddEnter(t, fitness)
        \/ AddBestCheck(t)
        \/ AddBestWrite(t)
        \/ AddLenCheck(t)
        \/ AddPush(t)
        \/ AddMinCheck(t)
        \/ AddReplace(t)

SpecConc == InitDB /\ [][NextConc]_vars

\* no thread is inside add_program
Quiescent == \A t \in Threads : threads[t].pc = "idle"

\* C19: concurrent add_program calls are linearized: once the callers have
\* returned, the store is in a state some sequential order of the same adds
\* produces, and in particular the number of members does not exceed the
\* capacity and the best-ever program is at least as fit as every member.
C19_ConcurrentAddsLinearized ==
    Quiescent =>
        /\ Len(programs) <= max_size
        /\ \A p \in Members(programs) :
              best_program # None /\ best_program[1].fitness >= p.fitness

----------------------------------------------------------------------------
(* PredatorPreyEnvironment.run_simulation.  The environment is a strip of
   height 0, so every y coordinate is 0, positions and speeds are whole
   numbers and behaviours move along the x axis: distances, unit vectors and
   clipped positions are then exact, as they are in binary64. *)

\* constructor arguments of the environment: width and height, max_steps,
\* mouse_speed and capture_distance (the defaults), the predator speeds
Width == MaxWidth
Height == 0
MaxSteps == MaxSimSteps
MouseSpeed == 1
CaptureDistance == 2
PredatorSpeeds == { 0, 2 }

Abs(a) == IF a < 0 THEN 0 - a ELSE a

\* Agent.distance_to: sqrt(dx**2 + dy**2) with dy = 0
DistanceTo(a, b) == Abs(a.x - b.x)

\* _clip_position for numbers
ClipPosition(x, y, width) ==
    [x |-> Max2(0, Min2(width, x)), y |-> Max2(0, Min2(Height, y))]

\* min(agents, key=distance to a): the first of the nearest among idx
Nearest(a, agents, idx) ==
    CHOOSE i \in idx :
        \A j \in idx :
            \/ DistanceTo(a, agents[i]) < DistanceTo(a, agents[j])
            \/ DistanceTo(a, agents[i]) = DistanceTo(a, agents[j]) /\ i <= j

\* What a call of the behaviour function does:
\*   "right", "left", "stay"  returns (1, 0), (-1, 0), (0, 0)
\*   "raise"      raises an Exception
\*   "exit"       raises SystemExit
\*   "malformed"  returns None, a tuple of the wrong length or of strings
\*   "nan"        returns (float('nan'), 0.0)
\* A behaviour returns `normal`, except for a mouse at x = fault_at, where it
\* does `fault`.
Behaviours ==
    { b \in [normal : {"right", "left", "stay"},
             fault : {"none", "raise", "exit", "malformed", "nan"},
             fault_at : 0..Width] :
        b.fault = "none" => b.fault_at = 0 }

\* mouse_behavior(state, mouse_pos, predator_pos)
Outcome(b, mouse) ==
    IF b.fault # "none" /\ mouse.x = b.fault_at THEN b.fault ELSE b.normal

\* the mouse moves without the clipping at the walls
MoveMouseNoClip(mouse, outcome, width) ==
    IF outcome = "nan" THEN [mouse EXCEPT !.x = width]
    ELSE IF outcome = "right" THEN [mouse EXCEPT !.x = @ + MouseSpeed]
    ELSE IF outcome = "left" THEN [mouse EXCEPT !.x = @ - MouseSpeed]
    ELSE mouse

\* lines 152-170: the mouse after its behaviour call.  A raised Exception
\* and the TypeError/ValueError of unpacking or squaring a malformed result
\* are swallowed.  With dx = nan, distance is nan, `distance > 0` is false,
\* mouse.x + dx is nan and min(self.width, nan) is self.width.
MoveMouse(mouse, outcome, width) ==
    IF outcome \in {"raise", "malformed"} THEN mouse
    ELSE IF outcome = "nan"
    THEN [mouse EXCEPT !.x = width,
                       !.y = ClipPosition(0, mouse.y, width).y]
    ELSE LET dx == IF outcome = "right" THEN 1
                   ELSE IF outcome = "left" THEN 0 - 1 ELSE 0
             pos == ClipPosition(mouse.x + dx * MouseSpeed, mouse.y, width)
         IN  [mouse EXCEPT !.x = pos.x, !.y = pos.y]

\* lines 177-182 with _predator_behavior: chase the nearest alive mouse
MovePredator(predator, mice, speed, width) ==
    LET alive == { i \in DOMAIN mice : mice[i].alive }
    IN  IF alive = {} THEN predator
        ELSE LET target == mice[Nearest(predator, mice, alive)]
                 dx == IF target.x > predator.x THEN 1
                       ELSE IF target.x < predator.x THEN 0 - 1 ELSE 0
                 pos == ClipPosition(predator.x + dx * speed, predator.y,
                                     width)
             IN  [predator EXCEPT !.x = pos.x, !.y = pos.y]

\* only the first predator catches mice
CapturedByFirst(mouse, predators, capture_distance) ==
    DistanceTo(predators[1], mouse) < capture_distance

\* lines 185-188: a mouse within capture_distance of a predator is caught
Captured(mouse, predators, capture_distance) ==
    \E k \in DOMAIN predators :
        DistanceTo(predators[k], mouse) < capture_distance

RECURSIVE SumOver(_, _)
\* the sum of f[i] over the indices in idx
SumOver(f, idx) ==
    IF idx = {} THEN 0
    ELSE LET i == CHOOSE j \in idx : TRUE
         IN  f[i] + SumOver(f, idx \ {i})

\* the locals of run_simulation after _initialize_agents, lines 130-133, in
\* an environment of this width, nm mice, np predators, this predator_speed
\* and capture_distance, for behaviour b and the placement mx, px
Trial(width, nm, np, speed, capture_distance, b, mx, px) ==
    [NoSim EXCEPT
       !.pc = "running", !.width = width,
       !.num_mice = nm, !.num_predators = np,
       !.predator_speed = speed, !.capture_distance = capture_distance,
       !.behaviour = Some(b),
       !.mice = [i \in 1..nm |-> [x |-> mx[i], y |-> 0, alive |-> TRUE]],
       !.predators = [k \in 1..np |-> [x |-> px[k], y |-> 0, alive |-> TRUE]],
       !.called = [i \in 1..nm |-> FALSE],
       !.failed = [i \in 1..nm |-> FALSE],
       !.placement = Some([mice |-> mx, predators |-> px])]

\* run_simulation is entered: _initialize_agents places the agents
SimStart ==
    /\ sim.pc = "none"
    /\ \E nm \in 1..MaxAgents, np \in 1..MaxAgents, speed \in PredatorSpeeds,
          b \in Behaviours :
          /\ nm + np <= MaxAgents
          /\ \E mx \in [1..nm -> 0..Width], px \in [1..np -> 0..Width] :
                sim' = Trial(Width, nm, np, speed, CaptureDistance, b, mx, px)
    /\ UNCHANGED << dbVars, stats, verbose, runState, nextId, call, threads >>

\* the loop goes on for max_steps steps, without the break at line 191
SimRunningNoBreak ==
    /\ sim.pc = "running"
    /\ sim.step < MaxSteps

\* the loop of run_simulation goes on: steps are left and a mouse is alive
SimRunning ==
    /\ sim.pc = "running"
    /\ sim.step < MaxSteps
    /\ sim.step > 0 => \E i \in DOMAIN sim.mice : sim.mice[i].alive

\* the agents and the totals at the end of a step
Snapshot(mice, predators, survival, score) ==
    [mice |-> mice, predators |-> predators,
     total_survival_steps |-> survival, total_distance_score |-> score]

\* one iteration of the loop at line 135: every alive mouse calls the
\* behaviour and moves, the predators move, captures are marked.  A
\* SystemExit raised by a behaviour call leaves run_simulation at once.
SimStepResult(s) ==
    LET b == s.behaviour[1]
        mice == s.mice
        outcome == [i \in DOMAIN mice |-> Outcome(b, mice[i])]
        exits == { i \in DOMAIN mice : mice[i].alive /\ outcome[i] = "exit" }
        \* the mice whose behaviour call returns or raises an Exception
        done == { i \in DOMAIN mice :
                    mice[i].alive /\ \A e \in exits : i < e }
        called == { i \in DOMAIN mice :
                      mice[i].alive /\ \A e \in exits : i <= e }
        nearest == [i \in DOMAIN mice |->
                      s.predators[Nearest(mice[i], s.predators,
                                          DOMAIN s.predators)]]
        moved == [i \in DOMAIN mice |->
                    IF i \in done THEN MoveMouse(mice[i], outcome[i], s.width)
                    ELSE mice[i]]
        dist == [i \in DOMAIN mice |-> DistanceTo(moved[i], nearest[i])]
        survival == s.total_survival_steps + Cardinality(done)
        score == s.total_distance_score + SumOver(dist, done)
        preds == [k \in DOMAIN s.predators |->
                    MovePredator(s.predators[k], moved, s.predator_speed,
                                 s.width)]
        marked == [i \in DOMAIN mice |->
                     [moved[i] EXCEPT
                        !.alive = @ /\ ~Captured(moved[i], preds,
                                                  s.capture_distance)]]
        flags == [s EXCEPT
                    !.called = [i \in DOMAIN mice |-> i \in called],
                    !.failed = [i \in DOMAIN mice |->
                                  i \in done /\ outcome[i] \in
                                     {"raise", "malformed", "nan"}],
                    !.total_survival_steps = survival,
                    !.total_distance_score = score]
    IN  IF exits # {}
        THEN [flags EXCEPT !.pc = "raised", !.raised = "SystemExit",
                           !.mice = moved]
        ELSE [flags EXCEPT !.mice = marked, !.predators = preds,
                           !.step = @ + 1,
                           !.history = Append(@, Snapshot(marked, preds,
                                                          survival, score))]

\* the loop body is executed once
SimStep ==
    /\ SimRunning
    /\ sim' = SimStepResult(sim)
    /\ UNCHANGED << dbVars, stats, verbose, runState, nextId, call, threads >>

\* the fitness is -1.0 when no mouse is left
FitnessFailsWhenAllCaught(survival, score, alive, nm) ==
    LET d == Max2(1, survival)
    IN  [num |-> IF alive = 0 THEN 0 - 2 * nm * MaxSteps * d
                 ELSE 200 * survival * d + score * nm * MaxSteps
                      + 100 * alive * MaxSteps * d,
         den |-> 2 * nm * MaxSteps * d]

\* lines 196-200: avg_survival * 100 + avg_distance * 0.5 + final_alive * 50
\* as the fraction num / den, with avg_survival = survival / (nm * max_steps),
\* avg_distance = score / max(1, survival), final_alive = alive / nm
Fitness(survival, score, alive, nm) ==
    LET d == Max2(1, survival)
    IN  [num |-> 200 * survival * d + score * nm * MaxSteps
                 + 100 * alive * MaxSteps * d,
         den |-> 2 * nm * MaxSteps * d]

\* the number of mice alive
AliveCount(mice) == Cardinality({ i \in DOMAIN mice : mice[i].alive })

\* the loop is over: run_simulation computes the fitness and returns it
SimReturn ==
    /\ sim.pc = "running"
    /\ ~SimRunning
    /\ LET fitness == Fitness(sim.total_survival_steps,
                              sim.total_distance_score,
                              AliveCount(sim.mice), sim.num_mice)
       IN  sim' = [sim EXCEPT !.pc = "returned",
                              !.fitness_num = fitness.num,
                              !.fitness_den = fitness.den]
    /\ UNCHANGED << dbVars, stats, verbose, runState, nextId, call, threads >>

NextSim ==
    \/ SimStart
    \/ SimStep
    \/ SimReturn

\* an environment next to a store of the largest capacity
InitSim == InitDB /\ max_size = MaxCapacity

SpecSim == InitSim /\ [][NextSim]_vars

\* the step is an iteration of the simulation loop
IsSimStep == sim.pc = "running" /\ sim'.pc # "returned"

\* C20: a behaviour call that raises or returns a malformed or non-numeric
\* direction never propagates out of run_simulation: the step raises
\* nothing, the position of that mouse (both coordinates) is unchanged for
\* the step, and every alive mouse, that one included, adds 1 to
\* total_survival_steps and its distance to total_distance_score.
C20_FailedBehaviourMeansNoMove ==
    [][ IsSimStep =>
          /\ sim'.raised = "none"
          /\ \A i \in DOMAIN sim.mice :
                (sim'.called[i] /\ sim'.failed[i]) =>
                   /\ sim'.mice[i].x = sim.mice[i].x
                   /\ sim'.mice[i].y = sim.mice[i].y
          /\ sim'.total_survival_steps = sim.total_survival_steps
                + Cardinality({ i \in DOMAIN sim.mice : sim.mice[i].alive }) ]_vars

\* the width of the arena of the chase
ChaseWidth == MaxChaseWidth

\* the capture_distance settings of the chase: up to the default
CaptureDistances == 1..CaptureDistance

\* the behaviour that returns (0, 0) on every call
StayStill == [normal |-> "stay", fault |-> "none", fault_at |-> 0]

\* run_simulation is entered in an environment of one mouse and one
\* predator faster than the mouse, with a behaviour that always returns (0, 0)
ChaseStart ==
    /\ sim.pc = "none"
    /\ \E speed \in (MouseSpeed + 1)..MaxPredatorSpeed,
          capture_distance \in CaptureDistances,
          mx \in [1..1 -> 0..ChaseWidth], px \in [1..1 -> 0..ChaseWidth] :
          sim' = Trial(ChaseWidth, 1, 1, speed, capture_distance, StayStill,
                       mx, px)
    /\ UNCHANGED << dbVars, stats, verbose, runState, nextId, call, threads >>

NextChase ==
    \/ ChaseStart
    \/ SimStep
    \/ SimReturn

SpecChase == InitSim /\ [][NextChase]_vars

\* what a finished call leaves to compare a later call with
Finished(s) ==
    [pc |-> s.pc, raised |-> s.raised, history |-> s.history,
     mice |-> s.mice, predators |-> s.predators,
     total_survival_steps |-> s.total_survival_steps,
     total_distance_score |-> s.total_distance_score,
     fitness_num |-> s.fitness_num, fitness_den |-> s.fitness_den]

\* the second call starts with the distance total of the first
RestartKeepingScore(s) ==
    [Trial(s.width, s.num_mice, s.num_predators, s.predator_speed,
           s.capture_distance, s.behaviour[1],
           s.placement[1].mice, s.placement[1].predators)
       EXCEPT !.earlier = Some(Finished(s)),
              !.total_distance_score = s.total_distance_score]

\* run_simulation is called again on the same environment with the same
\* behaviour, and _initialize_agents places the agents as before: the
\* agents and the totals are new locals, lines 130-133
Restart(s) ==
    [Trial(s.width, s.num_mice, s.num_predators, s.predator_speed,
           s.capture_distance, s.behaviour[1],
           s.placement[1].mice, s.placement[1].predators)
       EXCEPT !.earlier = Some(Finished(s))]

\* a second call of run_simulation after the first has returned or raised
SimAgain ==
    /\ sim.pc \in {"returned", "raised"}
    /\ sim.earlier = None
    /\ sim' = Restart(sim)
    /\ UNCHANGED << dbVars, stats, verbose, runState, nextId, call, threads >>

NextTwin ==
    \/ SimStart
    \/ SimStep
    \/ SimReturn
    \/ SimAgain

SpecTwin == InitSim /\ [][NextTwin]_vars

\* a sequence in the opposite order
Reverse(seq) == [i \in DOMAIN seq |-> seq[Len(seq) + 1 - i]]

\* the step is an iteration of the simulation loop that ran to its end
IsCompletedStep ==
    /\ sim.pc = "running"
    /\ sim'.pc = "running"
    /\ sim'.step = sim.step + 1

\* the mouse is closer than capture_distance to one of the predators
InRange(mouse, predators, capture_distance) ==
    \E k \in DOMAIN predators :
        Abs(predators[k].x - mouse.x) < capture_distance

C22_StopsWhenNoMouseAlive ==
    [][ /\ sim'.step <= MaxSteps
        /\ IsSimStep =>
              /\ sim.step < MaxSteps
              /\ \E i \in DOMAIN sim.mice : sim.mice[i].alive
              /\ \A i \in DOMAIN sim.mice :
                    ~sim.mice[i].alive =>
                       /\ ~sim'.called[i]
                       /\ sim'.mice[i] = sim.mice[i]
        /\ (sim.pc = "running" /\ AliveCount(sim.mice) = 0) =>
              /\ sim'.pc = "returned"
              /\ sim'.predators = sim.predators
              /\ sim'.mice = sim.mice
              /\ sim'.called = sim.called
              /\ sim'.total_survival_steps = sim.total_survival_steps ]_vars

\* a trial has returned before max_steps iterations because its last mouse
\* was caught
C22_Witness ==
    /\ sim.pc = "returned"
    /\ sim.step >= 1
    /\ sim.step < MaxSteps
    /\ AliveCount(sim.mice) = 0

\* the distance between the mouse and the predator as placed
InitialDistance ==
    Abs(sim.placement[1].mice[1] - sim.placement[1].predators[1])

\* some number of predator moves of length predator_speed, max_steps at
\* most, takes the initial distance below capture_distance
Closable ==
    \E k \in 1..MaxSteps :
        InitialDistance - k * sim.predator_speed < sim.capture_distance

\* C23: with one mouse, one predator faster than the mouse and a behaviour
\* that always returns (0, 0), the mouse is not alive when the trial returns,
\* provided max_steps predator moves of length predator_speed can take the
\* initial distance below capture_distance.
C23_StationaryMouseCaught ==
    ( /\ sim.pc = "returned"
      /\ sim.num_mice = 1
      /\ sim.num_predators = 1
      /\ sim.behaviour = Some(StayStill)
      /\ sim.predator_speed > MouseSpeed
      /\ Closable )
    => ~sim.mice[1].alive

\* the behaviour that returns (1, 0) on every call
MoveRight(b) == b.normal = "right" /\ b.fault = "none"

InsideArena(s) ==
    /\ \A i \in DOMAIN s.mice :
          /\ 0 <= s.mice[i].x /\ s.mice[i].x <= s.width
          /\ 0 <= s.mice[i].y /\ s.mice[i].y <= Height
    /\ \A k \in DOMAIN s.predators :
          /\ 0 <= s.predators[k].x /\ s.predators[k].x <= s.width
          /\ 0 <= s.predators[k].y /\ s.predators[k].y <= Height

\* C26: every agent is inside [0, width] x [0, height] in every state of a
\* trial, whatever the behaviour returns; in one step a mouse moves by
\* mouse_speed at most and a predator by predator_speed at most, and a mouse
\* whose behaviour returns a zero-length direction stays where it is.
C26_InsideArenaAndSpeedLimits ==
    [][ /\ InsideArena(sim')
        /\ IsSimStep =>
              /\ \A i \in DOMAIN sim.mice :
                    /\ Abs(sim'.mice[i].x - sim.mice[i].x) <= MouseSpeed
                    /\ Outcome(sim.behaviour[1], sim.mice[i]) = "stay" =>
                          sim'.mice[i].x = sim.mice[i].x
              /\ \A k \in DOMAIN sim.predators :
                    Abs(sim'.predators[k].x - sim.predators[k].x)
                       <= sim.predator_speed ]_vars

\* what evaluate can return for the candidates, with trials that return
\* fitnesses of 0 or more
Evaluations ==
    UNION { { Evaluate(c, n, scores) : scores \in ScoreChoices(c, n) } :
               c \in Candidates, n \in 1..MaxTrials }

\* C30: a trial that returns has 0 <= total_survival_steps <= num_mice *
\* max_steps and 0 <= mice alive <= num_mice, and its fitness is 0 or more,
\* so never the failure value -1.0; an evaluation that returns without an
\* error has a fitness of 0 or more, and one that returns -1.0 has an error.
C30_FitnessNeverTheFailureValue ==
    /\ (sim.pc = "returned") =>
          /\ sim.num_mice >= 1
          /\ 0 <= sim.total_survival_steps
          /\ sim.total_survival_steps <= sim.num_mice * MaxSteps
          /\ AliveCount(sim.mice) <= sim.num_mice
          /\ sim.total_distance_score >= 0
          /\ sim.fitness_den > 0
          /\ sim.fitness_num >= 0
          /\ sim.fitness_num # FailFitness * sim.fitness_den
    /\ \A r \in Evaluations :
          /\ (r.raised = "none" /\ ~r.error) => r.fitness >= 0
          /\ (r.raised = "none" /\ r.fitness = FailFitness) => r.error

\* a trial has returned the lowest fitness there is: its only mouse was
\* caught in the first step, at distance 0 from the predator
C30_Witness ==
    /\ sim.pc = "returned"
    /\ sim.num_mice = 1
    /\ AliveCount(sim.mice) = 0
    /\ sim.total_survival_steps = 1
    /\ sim.total_distance_score = 0
    /\ sim.fitness_num * MaxSteps = 100 * sim.fitness_den

\* C27: in a store of capacity 1 or more that has members, the best-ever
\* program is one of the members, so the best_fitness of get_statistics is
\* the fitness of the best-ever program; a step removes the best-ever
\* program from the members only when the program added takes its place as
\* best-ever.
C27_BestEverIsMember ==
    [][ (max_size >= 1 /\ programs' # << >>) =>
          /\ best_program' # None
          /\ best_program'[1] \in Members(programs')
          /\ GetStatistics(programs', generation').best_fitness
                = Some(ToFloat(best_program'[1].fitness))
          /\ (best_program # None /\ best_program[1] \notin Members(programs'))
                => /\ IsAdd
                   /\ best_program' # best_program
                   /\ best_program'[1].id = nextId ]_vars

\* a full store has replaced a member by a program that is not the best
\* ever, and the older best-ever program is still a member
C27_Witness ==
    /\ call.op = "add_program"
    /\ call.accepted
    /\ call.evicted # None
    /\ best_program # None
    /\ best_program[1].id < nextId - 1
    /\ best_program[1] \in Members(programs)

\* C28: on a store of capacity 1 or more, through any sequence of
\* initialize_with_seed and run_iteration calls, stats.best_fitness never
\* decreases, equals the fitness of the best-ever program whenever there
\* is one, and is -inf exactly as long as no program has been offered to
\* the store.
C28_BestFitnessSeenTracksBestEver ==
    [][ max_size >= 1 =>
          /\ stats'.best_fitness >= stats.best_fitness
          /\ best_program' # None =>
                stats'.best_fitness = best_program'[1].fitness
          /\ stats'.best_fitness = NegInf <=> nextId' = 1 ]_vars

\* the step is an initialize_with_seed call
IsSeed == call'.op = "initialize_with_seed"

\* the growth of a counter in the step
Growth(counter) == stats'[counter] - stats[counter]

\* C29: 0 <= accepted_samples <= valid_samples <= total_samples in every
\* state; no counter ever decreases, a counter changes only in a
\* run_iteration and then by 1; the store grows only in a seed call or in
\* a run_iteration that counts an accepted sample, by 1, so that its size
\* never exceeds accepted_samples plus the number of seed calls.
C29_CountersOrderedAndBoundStore ==
    [][ /\ 0 <= stats'.accepted_samples
        /\ stats'.accepted_samples <= stats'.valid_samples
        /\ stats'.valid_samples <= stats'.total_samples
        /\ \A counter \in {"total_samples", "valid_samples",
                            "accepted_samples"} :
              /\ Growth(counter) \in {0, 1}
              /\ Growth(counter) = 1 => call'.op = "run_iteration"
        /\ Len(programs') - Len(programs)
              <= Growth("accepted_samples") + (IF IsSeed THEN 1 ELSE 0) ]_vars

\* after a seed call and two samples, one invalid and one accepted, the
\* store holds the seed and the accepted sample
C29_Witness ==
    /\ stats.total_samples > stats.valid_samples
    /\ stats.valid_samples >= stats.accepted_samples
    /\ stats.accepted_samples >= 1
    /\ Len(programs) = stats.accepted_samples + 1

====
